---- MODULE Spec2Model ----
(***************************************************************************)
(* Model of the natural-language-to-SQL pipeline:                          *)
(*   utils/helpers.py      the SQL safety gate (sanitize + validate)       *)
(*   core/rag_system.py    descriptor list, embedding index, retrieval     *)
(*   core/nsql_agent.py    process_query and validate_and_execute          *)
(* Texts are sequences of one-character strings.                           *)
(***************************************************************************)
EXTENDS Integers, Sequences, FiniteSets, TLC

VARIABLES
    \* ---- safety gate (helpers.py), one function application per step ----
    q,          \* the input text handed to the gate
    gstep,      \* "in" | "sanitized" | "resanitized" | "validated" | "gated"
    san,        \* sanitize_sql_query(q)
    san2,       \* sanitize_sql_query(sanitize_sql_query(q))
    valid,      \* validate_sql_query(q) / is_valid of the gate
    \* ---- the agent (nsql_agent.py) and its retrieval system ----
    agent,               \* "ok" once NSQLAgent.__init__ returned, else "failed"
    table_descriptions,  \* RAGSystem.table_descriptions
    index,               \* RAGSystem.index: the vectors held by the FAISS index
    db,                  \* the database behind self.engine
    open_conns,          \* connections acquired and not yet released
    empty_shape,         \* the number of dimensions of encode([])
    last,                \* what the most recent call did and returned
    \* ---- the configuration manager (config_manager.py) ----
    heap,            \* the dictionaries in memory, by cell
    default_config,  \* ConfigManager.default_config: the cell it refers to
    config,          \* ConfigManager.config: the cell it refers to
    returned,        \* the cell the caller got from get_config, NoRef if none
    config_file,     \* what ~/.nsql/config.json holds
    recent,          \* per key, the value last passed to its setter
    \* ---- an add_custom_table_descriptions call running step by step ----
    adding           \* its position and local values, NotAdding if none

gateVars == <<q, gstep, san, san2, valid>>

agentVars == <<agent, table_descriptions, index, db, open_conns, empty_shape, last>>

cfgVars == <<heap, default_config, config, returned, config_file, recent>>

vars == <<q, gstep, san, san2, valid,
          agent, table_descriptions, index, db, open_conns, empty_shape, last,
          heap, default_config, config, returned, config_file, recent,
          adding>>

None == <<"<none>">>

\* the element of a one-element set; { body : x \in {e} } is body with x
\* bound to the value of e, which is then evaluated once
TheOnly(S) == CHOOSE r \in S : TRUE

(***************************************************************************)
(* Characters and Python str primitives                                    *)
(***************************************************************************)
Lowers == <<"a","b","c","d","e","f","g","h","i","j","k","l","m",
            "n","o","p","q","r","s","t","u","v","w","x","y","z">>
Uppers == <<"A","B","C","D","E","F","G","H","I","J","K","L","M",
            "N","O","P","Q","R","S","T","U","V","W","X","Y","Z">>
Digits == {"0","1","2","3","4","5","6","7","8","9"}

Range(s) == { s[i] : i \in DOMAIN s }

\* str.isspace for the characters str.strip() removes
IsSpace(c) == c \in {" ", "\n", "\t"}

Letters == Range(Lowers) \cup Range(Uppers)

\* the regex class \w
WordChars == Letters \cup Digits \cup {"_"}

IsWordChar(c) == c \in WordChars

LowerOf == [c \in Range(Uppers) |-> Lowers[CHOOSE i \in DOMAIN Uppers : Uppers[i] = c]]
UpperOf == [c \in Range(Lowers) |-> Uppers[CHOOSE i \in DOMAIN Lowers : Lowers[i] = c]]

\* str.lower() on one character
LowerChar(c) == IF c \in DOMAIN LowerOf THEN LowerOf[c] ELSE c

\* str.lower()
Lower(s) == [i \in DOMAIN s |-> LowerChar(s[i])]

RECURSIVE LStrip(_)
LStrip(s) ==
    IF s = <<>> THEN s
    ELSE IF IsSpace(Head(s)) THEN LStrip(Tail(s)) ELSE s

RECURSIVE RStrip(_)
RStrip(s) ==
    IF s = <<>> THEN s
    ELSE IF IsSpace(s[Len(s)]) THEN RStrip(SubSeq(s, 1, Len(s) - 1)) ELSE s

\* str.strip()
Strip(s) == RStrip(LStrip(s))

\* s.endswith(suffix) / s.startswith(prefix)
EndsWith(s, suf) ==
    /\ Len(suf) <= Len(s)
    /\ SubSeq(s, Len(s) - Len(suf) + 1, Len(s)) = suf

StartsWith(s, pre) ==
    /\ Len(pre) <= Len(s)
    /\ SubSeq(s, 1, Len(pre)) = pre

\* s[:-1]
DropLast(s) == IF s = <<>> THEN s ELSE SubSeq(s, 1, Len(s) - 1)

\* c in s
Contains(s, c) == \E i \in DOMAIN s : s[i] = c

\* s.split(c)[0]: the text before the first occurrence of c
SplitFirst(s, c) ==
    IF Contains(s, c)
    THEN SubSeq(s, 1, (CHOOSE i \in DOMAIN s :
                          s[i] = c /\ \A j \in 1..(i - 1) : s[j] # c) - 1)
    ELSE s

(***************************************************************************)
(* helpers.py: validate_sql_query                                          *)
(***************************************************************************)
dangerous_keywords ==
    << <<"d","r","o","p">>,
       <<"d","e","l","e","t","e">>,
       <<"t","r","u","n","c","a","t","e">>,
       <<"a","l","t","e","r">>,
       <<"c","r","e","a","t","e">>,
       <<"i","n","s","e","r","t">>,
       <<"u","p","d","a","t","e">>,
       <<"g","r","a","n","t">>,
       <<"r","e","v","o","k","e">>,
       <<"c","o","m","m","i","t">>,
       <<"r","o","l","l","b","a","c","k">>,
       <<"s","a","v","e","p","o","i","n","t">>,
       <<"m","e","r","g","e">> >>

\* the regex assertion \b at the gap before position p (1..Len(s)+1)
WordBoundary(s, p) ==
    LET before == (p - 1) \in DOMAIN s /\ IsWordChar(s[p - 1])
        after  == p \in DOMAIN s /\ IsWordChar(s[p])
    IN  before # after

\* a plausible slip: plain substring search, no \b anchors
SearchSubstring(keyword, s) ==
    \E i \in 1..(Len(s) - Len(keyword) + 1) :
        SubSeq(s, i, i + Len(keyword) - 1) = keyword

\* re.search(r'\b' + re.escape(keyword) + r'\b', s) is not None
SearchWord(keyword, s) ==
    \E i \in 1..(Len(s) - Len(keyword) + 1) :
        /\ WordBoundary(s, i)
        /\ SubSeq(s, i, i + Len(keyword) - 1) = keyword
        /\ WordBoundary(s, i + Len(keyword))

validate_sql_query(sql_query) ==
    LET query_lower == Strip(Lower(sql_query))
    IN  ~ \E n \in DOMAIN dangerous_keywords :
              SearchWord(dangerous_keywords[n], query_lower)

(***************************************************************************)
(* helpers.py: sanitize_sql_query, validate_and_sanitize_query             *)
(***************************************************************************)
sanitize_sql_query(sql_query) ==
    LET stripped == Strip(sql_query)
        noTrail  == IF EndsWith(stripped, <<";">>)
                    THEN DropLast(stripped) ELSE stripped
    IN  IF Contains(DropLast(noTrail), ";")
        THEN Strip(SplitFirst(noTrail, ";"))
        ELSE noTrail

\* a plausible slip: the raw text is validated, the sanitized text returned
validate_and_sanitize_query_raw(sql_query) ==
    [is_valid |-> validate_sql_query(sql_query),
     sanitized_query |-> sanitize_sql_query(sql_query)]

validate_and_sanitize_query(sql_query) ==
    LET sanitized_query == sanitize_sql_query(sql_query)
    IN  [is_valid |-> validate_sql_query(sanitized_query),
         sanitized_query |-> sanitized_query]

(***************************************************************************)
(* config_manager.py: the dictionaries of the configuration manager        *)
(* A dictionary lives in a cell of the heap and is reached by reference,   *)
(* so that a copy and a second reference to the same dictionary differ.    *)
(***************************************************************************)
Cells == 1..3

\* a reference to no dictionary
NoRef == 0

FreeCell == [free |-> TRUE]

ConfigKeys == {"db_url", "table_descriptions_file", "gemini_model"}

DefaultModel == "gemini-1.5-pro-latest"

\* the value of self.default_config when __init__ creates it
Defaults == [db_url |-> "", table_descriptions_file |-> "",
             gemini_model |-> DefaultModel]

\* d[key] = value
SetItem(d, key, value) ==
    [k \in DOMAIN d \cup {key} |-> IF k = key THEN value ELSE d[k]]

\* d.update(other)
Update(d, other) ==
    [k \in DOMAIN d \cup DOMAIN other |->
        IF k \in DOMAIN other THEN other[k] ELSE d[k]]

\* the cell a new dictionary is created in: one no live reference points to
Alloc(roots) ==
    CHOOSE c \in Cells \ roots : \A d \in Cells \ roots : c <= d

\* cells no reference points to any more are reclaimed
Collect(h, roots) == [c \in Cells |-> IF c \in roots THEN h[c] ELSE FreeCell]

\* a plausible slip: the dictionary itself is handed over, not a copy
CopyDict_alias(h, src, roots) == [heap |-> h, ref |-> src]

\* dict.copy(): a new dictionary holding the same items
CopyDict(h, src, roots) ==
    LET new == Alloc(roots)
    IN  [heap |-> [h EXCEPT ![new] = h[src]], ref |-> new]

\* ConfigManager.load_config; file is what the configuration file holds
load_config(h, defaults, file, roots) ==
    IF file.kind = "json"
    THEN LET copied == CopyDict(h, defaults, roots)
         IN  [heap |-> [copied.heap EXCEPT
                           ![copied.ref] = Update(copied.heap[copied.ref], file.data)],
              ref |-> copied.ref]
    \* no file, or json.load raised
    ELSE CopyDict(h, defaults, roots)

\* where writing the file may fail: open() raises and the file is as it was,
\* or the write raises and the file is left truncated
SaveFaults == {"none", "open", "write"}

\* ConfigManager.save_config
save_config(d, file, fault) ==
    IF fault = "none" THEN [ok |-> TRUE, file |-> [kind |-> "json", data |-> d]]
    ELSE IF fault = "open" THEN [ok |-> FALSE, file |-> file]
    ELSE [ok |-> FALSE, file |-> [kind |-> "corrupt"]]

\* a plausible slip: the setter writes under another key
set_table_descriptions_file_typo(d, file_path) ==
    SetItem(d, "table_descriptions", file_path)

set_db_url(d, db_url) == SetItem(d, "db_url", db_url)
set_table_descriptions_file(d, file_path) ==
    SetItem(d, "table_descriptions_file", file_path)
set_gemini_model(d, model) == SetItem(d, "gemini_model", model)

\* self.config.get(key, default)
ConfigGet(d, key, default) == IF key \in DOMAIN d THEN d[key] ELSE default

get_db_url(d) == ConfigGet(d, "db_url", "")
get_table_descriptions_file(d) == ConfigGet(d, "table_descriptions_file", "")
get_gemini_model(d) == ConfigGet(d, "gemini_model", DefaultModel)

\* no setter has been called for the key
Unset == "<unset>"

\* no add_custom_table_descriptions call is in progress
NotAdding == [pc |-> "idle"]

\* a manager constructed with no configuration file, left untouched
ConfigAtRest ==
    /\ heap = [c \in Cells |-> IF c \in {1, 2} THEN Defaults ELSE FreeCell]
    /\ default_config = 1
    /\ config = 2
    /\ returned = NoRef
    /\ config_file = [kind |-> "absent"]
    /\ recent = [k \in ConfigKeys |-> Unset]

(***************************************************************************)
(* Inputs of the gate                                                      *)
(***************************************************************************)
MaxLen == 4

GateAlphabet == {"a", ";", " "}

RECURSIVE SeqsUpTo(_, _)
SeqsUpTo(S, n) ==
    IF n = 0 THEN {<<>>}
    ELSE LET shorter == SeqsUpTo(S, n - 1)
         IN  shorter \cup { Append(s, c) : s \in shorter, c \in S }

UpperChar(c) == IF c \in DOMAIN UpperOf THEN UpperOf[c] ELSE c

Upper(s) == [i \in DOMAIN s |-> UpperChar(s[i])]
Capitalize(s) == [i \in DOMAIN s |-> IF i = 1 THEN UpperChar(s[i]) ELSE s[i]]

Words == Range(dangerous_keywords) \cup
         { <<"s","e","l","e","c","t">>, <<"u","p","d","a","t","e","s">> }

Cased == UNION { {w, Upper(w), Capitalize(w)} : w \in Words }

Prefixes == { <<>>, <<" ">>, <<"x">>, <<"_">>, <<"(">>, <<"1">>,
              <<"s","e","l","e","c","t"," ">>, <<"a",";">> }

Suffixes == { <<>>, <<" ">>, <<"d","_","a","t">>, <<"_">>, <<")">>, <<"2">>,
              <<" ","t">>, <<";">> }

KeywordTexts == { p \o w \o s : p \in Prefixes, w \in Cased, s \in Suffixes }

GateInputs == SeqsUpTo(GateAlphabet, MaxLen) \cup KeywordTexts

(***************************************************************************)
(* The gate as a state machine: one function application per step          *)
(***************************************************************************)
GateInit ==
    /\ q \in GateInputs
    /\ gstep = "in"
    /\ san = None
    /\ san2 = None
    /\ valid = None
    /\ agent = "failed"
    /\ table_descriptions = <<>>
    /\ index = <<>>
    /\ db = [exists |-> TRUE, rows |-> 0]
    /\ open_conns = 0
    /\ empty_shape = 1
    /\ last = [op |-> "none"]
    /\ ConfigAtRest
    /\ adding = NotAdding

Sanitize ==
    /\ gstep = "in"
    /\ san' = sanitize_sql_query(q)
    /\ gstep' = "sanitized"
    /\ UNCHANGED <<q, san2, valid, agentVars, cfgVars, adding>>

SanitizeAgain ==
    /\ gstep = "sanitized"
    /\ san2' = sanitize_sql_query(san)
    /\ gstep' = "resanitized"
    /\ UNCHANGED <<q, san, valid, agentVars, cfgVars, adding>>

Validate ==
    /\ gstep = "in"
    /\ valid' = validate_sql_query(q)
    /\ gstep' = "validated"
    /\ UNCHANGED <<q, san, san2, agentVars, cfgVars, adding>>

ValidateAndSanitize ==
    /\ gstep = "in"
    /\ LET r == validate_and_sanitize_query(q)
       IN  /\ valid' = r.is_valid
           /\ san' = r.sanitized_query
    /\ gstep' = "gated"
    /\ UNCHANGED <<q, san2, agentVars, cfgVars, adding>>

GateNext == Sanitize \/ SanitizeAgain \/ Validate \/ ValidateAndSanitize

SpecGate == GateInit /\ [][GateNext]_vars

(***************************************************************************)
(* Claims about the gate                                                   *)
(***************************************************************************)
KeywordSet == Range(dangerous_keywords)

\* s[i..j] is a maximal run of word characters
IsToken(s, i, j) ==
    /\ i <= j
    /\ \A n \in i..j : IsWordChar(s[n])
    /\ (i = 1 \/ ~IsWordChar(s[i - 1]))
    /\ (j = Len(s) \/ ~IsWordChar(s[j + 1]))

HasStandaloneKeyword(s) ==
    \E i \in DOMAIN s, j \in DOMAIN s :
        IsToken(s, i, j) /\ Lower(SubSeq(s, i, j)) \in KeywordSet

\* C3: validate_sql_query(s) is false exactly when some whole-word token of s
\* is, in any letter case, one of the 13 blacklisted keywords.
C3_ValidateIffNoKeywordToken ==
    gstep = "validated" => (valid = FALSE <=> HasStandaloneKeyword(q))

\* a rejected mixed-case keyword next to an accepted one inside an identifier
C3_Witness ==
    /\ gstep = "validated"
    /\ valid = FALSE
    /\ q # Lower(q)
    /\ HasStandaloneKeyword(q)

C3_WitnessIdentifier ==
    /\ gstep = "validated"
    /\ valid = TRUE
    /\ \E n \in DOMAIN dangerous_keywords : SearchSubstring(dangerous_keywords[n], Lower(q))

\* C4: sanitize_sql_query is idempotent, sanitize(sanitize(q)) = sanitize(q).
C4_SanitizeIdempotent ==
    gstep = "resanitized" => san2 = san

\* C5: when q has a ';' before its last position, sanitize(q) is the trimmed
\* text before the first ';'.
C5_TruncatesToFirstStatement ==
    (gstep = "sanitized" /\ Contains(DropLast(q), ";"))
        => san = Strip(SplitFirst(q, ";"))

(***************************************************************************)
(* rag_system.py: table descriptors                                        *)
(***************************************************************************)
HasKey(d, key) == key \in DOMAIN d

\* dict.get(key, default)
Get(d, key, default) == IF key \in DOMAIN d THEN d[key] ELSE default

RECURSIVE Flatten(_)
Flatten(ss) == IF ss = <<>> THEN <<>> ELSE Head(ss) \o Flatten(Tail(ss))

\* ', '.join(items), and str(list) of a list of names
Join(items) ==
    Flatten([i \in DOMAIN items |->
                IF i < Len(items) THEN <<items[i], ", ">> ELSE <<items[i]>>])

ListStr(items) == <<"[">> \o Join(items) \o <<"]">>

NumStr(n) == <<"0", "1", "2", "3", "4", "5">>[n + 1]

\* "{name} of type {type}" with its " (primary key)" / " (not null)" marks
ColumnsText(cols) ==
    Flatten([i \in DOMAIN cols |->
        <<cols[i].name, " of type ", cols[i].type>>
        \o (IF Get(cols[i], "primary_key", FALSE) THEN <<" (primary key)">> ELSE <<>>)
        \o (IF Get(cols[i], "nullable", TRUE) = FALSE THEN <<" (not null)">> ELSE <<>>)
        \o (IF i < Len(cols) THEN <<", ">> ELSE <<>>)])

ColumnsSection(cols) ==
    IF cols # <<>>
    THEN <<NumStr(Len(cols)), " columns: ">> \o ColumnsText(cols)
    ELSE <<>>

ForeignKeysSection(fks) ==
    IF fks # <<>>
    THEN <<". It has foreign keys: ">> \o
         Flatten([i \in DOMAIN fks |->
            <<"'">> \o ListStr(fks[i].constrained_columns) \o <<"' references '">>
            \o <<fks[i].referred_table, ".">> \o ListStr(fks[i].referred_columns)
            \o <<"'">> \o (IF i < Len(fks) THEN <<", ">> ELSE <<>>)])
    ELSE <<>>

PrimaryKeysSection(pks) ==
    IF pks # <<>>
    THEN <<". Primary keys: ">> \o Join(pks) \o <<".">>
    ELSE <<>>

\* a table of the database as the inspector reports it -> descriptor
LiveDescription(t) ==
    LET primary_keys == SelectSeq([i \in DOMAIN t.columns |->
                                      IF Get(t.columns[i], "primary_key", FALSE)
                                      THEN t.columns[i].name ELSE ""],
                                  LAMBDA n : n # "")
    IN  [name |-> t.name,
         columns |-> [i \in DOMAIN t.columns |->
             [name |-> t.columns[i].name,
              type |-> t.columns[i].type,
              nullable |-> Get(t.columns[i], "nullable", TRUE),
              default |-> Get(t.columns[i], "default", "None"),
              primary_key |-> Get(t.columns[i], "primary_key", FALSE),
              foreign_key |-> \E n \in DOMAIN t.foreign_keys :
                  /\ t.foreign_keys[n].constrained_columns # <<>>
                  /\ t.columns[i].name \in Range(t.foreign_keys[n].constrained_columns)]],
         primary_keys |-> primary_keys,
         foreign_keys |-> t.foreign_keys,
         is_custom |-> FALSE,
         text_description |->
             <<"Table '", t.name, "' has ">>
             \o ColumnsSection(t.columns)
             \o ForeignKeysSection(t.foreign_keys)
             \o PrimaryKeysSection(primary_keys)]

\* the subscripts custom_table['name'], col['name'], col['type'], fk[...]
\* raise KeyError on a missing key
CustomRaises(custom_table) ==
    \/ ~HasKey(custom_table, "name")
    \/ \E i \in DOMAIN Get(custom_table, "columns", <<>>) :
          LET col == custom_table.columns[i]
          IN  ~HasKey(col, "name") \/ ~HasKey(col, "type")
    \/ \E i \in DOMAIN Get(custom_table, "foreign_keys", <<>>) :
          LET fk == custom_table.foreign_keys[i]
          IN  \/ ~HasKey(fk, "constrained_columns")
              \/ ~HasKey(fk, "referred_table")
              \/ ~HasKey(fk, "referred_columns")

\* a caller-supplied entry -> descriptor (the same code at construction and
\* in add_custom_table_descriptions)
CustomDescription(custom_table) ==
    LET columns == Get(custom_table, "columns", <<>>)
        primary_keys == Get(custom_table, "primary_keys", <<>>)
        foreign_keys == Get(custom_table, "foreign_keys", <<>>)
    IN  [name |-> custom_table.name,
         columns |-> columns,
         primary_keys |-> primary_keys,
         foreign_keys |-> foreign_keys,
         is_custom |-> TRUE,
         text_description |->
             <<"Table '", custom_table.name, "' has ">>
             \o ColumnsSection(columns)
             \o PrimaryKeysSection(primary_keys)
             \o ForeignKeysSection(foreign_keys)]

\* a plausible slip: an entry whose name is already listed is not appended
AppendDescription_dedup(descriptions, d) ==
    IF \E i \in DOMAIN descriptions : descriptions[i].name = d.name
    THEN descriptions
    ELSE Append(descriptions, d)

\* descriptions.append(table_description)
AppendDescription(descriptions, d) == Append(descriptions, d)

\* a plausible slip: an entry that cannot be described is skipped
RECURSIVE AppendCustom_skip(_, _)
AppendCustom_skip(descriptions, customs) ==
    IF customs = <<>> THEN [raised |-> FALSE, descriptions |-> descriptions]
    ELSE IF CustomRaises(Head(customs))
         THEN AppendCustom_skip(descriptions, Tail(customs))
         ELSE AppendCustom_skip(Append(descriptions,
                                       CustomDescription(Head(customs))),
                                Tail(customs))

\* the loop over the caller's entries: every entry before the first one that
\* raises has been appended when the KeyError leaves the loop
RECURSIVE AppendCustom(_, _)
AppendCustom(descriptions, customs) ==
    IF customs = <<>> THEN [raised |-> FALSE, descriptions |-> descriptions]
    ELSE IF CustomRaises(Head(customs))
         THEN [raised |-> TRUE, descriptions |-> descriptions]
         ELSE AppendCustom(AppendDescription(descriptions,
                                             CustomDescription(Head(customs))),
                           Tail(customs))

\* RAGSystem._get_table_descriptions
get_table_descriptions(live_tables, custom_table_descriptions) ==
    AppendCustom([i \in DOMAIN live_tables |-> LiveDescription(live_tables[i])],
                 custom_table_descriptions)

(***************************************************************************)
(* rag_system.py: embeddings and the FAISS index                           *)
(* Vectors are pairs of integers; a normalized vector has length UnitLen,  *)
(* so an inner product of two normalized vectors is a cosine scaled by     *)
(* UnitLen^2.                                                              *)
(***************************************************************************)
UnitLen == 5

RawVectors == << <<-3, 4>>, <<8, 6>>, <<0, 10>>, <<5, 0>>,
                 <<-4, 3>>, <<6, -8>>, <<4, -3>>, <<-5, 0>>,
                 <<3, 4>>, <<0, -5>>, <<-3, -4>>, <<-8, -6>> >>

\* SentenceTransformer.encode of one text: a fixed function of the text, one
\* direction per text length, so the same text always gets the same vector
\* and the texts of different lengths used below get different directions
Encode(text) == RawVectors[(Len(text) % Len(RawVectors)) + 1]

Norm(v) == CHOOSE n \in 0..20 : n * n = v[1] * v[1] + v[2] * v[2]

\* the vectors go into the index as the encoder gave them
NormalizeL2_none(v) == v

\* faiss.normalize_L2
NormalizeL2(v) == [i \in DOMAIN v |-> (v[i] * UnitLen) \div Norm(v)]

InnerProduct(a, b) == a[1] * b[1] + a[2] * b[2]

\* the score FAISS reports for a result slot it could not fill
NoScore == -1000

\* encode([]) is an empty array: one-dimensional (shape[1] then raises
\* IndexError) or of shape (0, d), depending on the embedding library
EmptyEncodeShapes == {1, 2}

\* RAGSystem._build_index over the current descriptor list
build_index(descriptions, encode_ok, shape) ==
    IF ~encode_ok \/ (descriptions = <<>> /\ shape = 1)
    THEN [raised |-> TRUE, index |-> <<>>]
    ELSE [raised |-> FALSE,
          index |-> [i \in DOMAIN descriptions |->
                        NormalizeL2(Encode(descriptions[i].text_description))]]

\* The order of equal scores in a search result is the library's: the code
\* asks for faiss-cpu>=1.7.0 (setup.py) and sorts nothing itself. A build
\* puts the earlier slot first or the later slot first.
TieOrders == {"first", "last"}

\* the 0-based slots of the index ordered by descending score, equal scores
\* in the build's tie order
RECURSIVE Ranked(_, _, _)
Ranked(scores, slots, ties) ==
    IF slots = {} THEN <<>>
    ELSE LET best == CHOOSE i \in slots : \A j \in slots :
                        \/ scores[i + 1] > scores[j + 1]
                        \/ /\ scores[i + 1] = scores[j + 1]
                           /\ IF ties = "first" THEN i <= j ELSE i >= j
         IN  <<best>> \o Ranked(scores, slots \ {best}, ties)

\* IndexFlatIP.search(query_embedding, k): always k slots, the ones past the
\* index size carry the label -1
faiss_search(idx, query_embedding, k, ties) ==
    LET scores == [i \in DOMAIN idx |-> InnerProduct(idx[i], query_embedding)]
        ranked == Ranked(scores, { i - 1 : i \in DOMAIN idx }, ties)
    IN  [i \in 1..k |->
            IF i <= Len(ranked)
            THEN [idx |-> ranked[i], score |-> scores[ranked[i] + 1]]
            ELSE [idx |-> -1, score |-> NoScore]]

\* Python list subscript: a negative subscript counts from the end
PyIndexValid(list, i) == -Len(list) <= i /\ i < Len(list)
PyIndex(list, i) == IF i >= 0 THEN list[i + 1] ELSE list[Len(list) + i + 1]

\* if idx < len(self.table_descriptions)
SlotAccepted(i, descriptions) == i < Len(descriptions)

\* min_score = 0.25 on the scale of the model's scores: a cosine of 0.25 is
\* 6.25 here, and an integer score reaches it exactly when it is at least 7
DefaultMinScore == 7

\* the filter the code carries as a comment:
\*   if table_info['similarity_score'] >= min_score
ScoreKept_filtered(score, min_score) == score >= min_score

\* relevant_tables.append(table_info) follows whatever the score is
ScoreKept(score, min_score) == TRUE

\* RAGSystem.retrieve_relevant_tables
retrieve_relevant_tables(descriptions, idx, query, k, min_score, encode_ok, ties) ==
    IF ~encode_ok THEN [raised |-> TRUE, tables |-> <<>>]
    ELSE
    LET found == faiss_search(idx, NormalizeL2(Encode(query)), k, ties)
        kept  == SelectSeq(found, LAMBDA f : SlotAccepted(f.idx, descriptions))
        appended == SelectSeq(kept, LAMBDA f : ScoreKept(f.score, min_score))
    IN  IF \E i \in DOMAIN kept : ~PyIndexValid(descriptions, kept[i].idx)
        THEN [raised |-> TRUE, tables |-> <<>>]
        ELSE [raised |-> FALSE,
              tables |-> [i \in DOMAIN appended |->
                  [descriptor |-> PyIndex(descriptions, appended[i].idx),
                   slot |-> appended[i].idx,
                   similarity_score |-> appended[i].score]]]
\* (slot is the FAISS label the entry was read for; the code's table_info is
\* the descriptor's fields plus similarity_score)

(***************************************************************************)
(* gemini_llm.py: the SQL text taken from the model's response             *)
(***************************************************************************)
Min(S) == CHOOSE x \in S : \A y \in S : x <= y

\* str.find(pat, start): 0-based position of the first match, -1 if none
Find(s, pat, start) ==
    LET hits == { i \in start..(Len(s) - Len(pat)) :
                     SubSeq(s, i + 1, i + Len(pat)) = pat }
    IN  IF hits = {} THEN -1 ELSE Min(hits)

\* s[a:b] for 0 <= a
Slice(s, a, b) == SubSeq(s, a + 1, b)

IsAlpha(c) == c \in Letters

\* the backquote character
BackQuote == "<backquote>"

Fence == <<BackQuote, BackQuote, BackQuote>>
SqlFence == Fence \o <<"s", "q", "l">>

\* GeminiLLM._extract_sql_query
extract_sql_query(response_text) ==
    LET cleaned == Strip(response_text)
        size    == Len(cleaned)
        upTo(start) == LET e == Find(cleaned, Fence, start)
                       IN  IF e = -1 THEN size ELSE e
    IN  IF Find(cleaned, SqlFence, 0) # -1
        THEN LET start == Find(cleaned, SqlFence, 0) + Len(SqlFence)
             IN  Strip(Slice(cleaned, start, upTo(start)))
        ELSE IF Find(cleaned, Fence, 0) # -1
        THEN LET first == Find(cleaned, Fence, 0)
                 next_newline == Find(cleaned, <<"\n">>, first)
                 start == IF first + 3 < size /\ IsAlpha(cleaned[first + 4])
                          THEN (IF next_newline # -1 THEN next_newline ELSE first + 3)
                          ELSE first + 3
             IN  Strip(Slice(cleaned, start, upTo(start)))
        ELSE cleaned

(***************************************************************************)
(* SQL texts and the database behind the engine                            *)
(***************************************************************************)
W_select == <<"s","e","l","e","c","t">>
W_from_t == <<" ","*"," ","f","r","o","m"," ","t">>
W_DROP_t == <<"D","R","O","P"," ","T","A","B","L","E"," ","t">>

SQL_Select1  == Upper(W_select) \o <<" ","1">>
SQL_SelectT  == W_select \o W_from_t
SQL_Drop     == W_DROP_t
SQL_Multi    == SQL_Select1 \o <<";"," ">> \o W_DROP_t
SQL_MultiEnd == SQL_Multi \o <<";">>
SQL_Truncate == <<"t","r","u","n","c","a","t","e"," ","t">>
SQL_DropX    == <<"d","r","o","p","_","t">>
SQL_Typo     == <<"s","e","l","e","c"," ","1">>
SQL_Fenced   == SqlFence \o <<"\n">> \o SQL_SelectT \o <<";","\n">> \o Fence

\* answers with fenced blocks: a block tagged sql after a generic block, a
\* block with the tag SQL on its own line, and a generic block whose SQL
\* starts right after the opening fence
SQL_FencedSecond == Fence \o <<"\n", "x", "\n">> \o Fence \o <<"\n">>
                    \o SqlFence \o <<"\n">> \o SQL_Select1 \o <<"\n">> \o Fence
SQL_FencedTag    == Fence \o <<"S", "Q", "L", "\n">> \o SQL_Select1
                    \o <<"\n">> \o Fence
SQL_FencedInline == Fence \o W_select \o <<" ", "1", "\n", "+", "1", "\n">>
                    \o Fence

FencedResponses == { SQL_FencedSecond, SQL_FencedTag, SQL_FencedInline }

\* what the generative model may answer
Responses == { SQL_Select1, SQL_SelectT, SQL_Drop, SQL_Multi, SQL_MultiEnd,
               SQL_Truncate,
               SQL_DropX, SQL_Typo, SQL_Fenced }

\* the leading run of word characters of a statement, lower-cased
FirstWord(s) ==
    LET t == Lower(Strip(s))
        stops == { i \in DOMAIN t : ~IsWordChar(t[i]) }
    IN  IF stops = {} THEN t ELSE SubSeq(t, 1, Min(stops) - 1)

\* conn.execute(text(sql)) followed by result.fetchall() on a database with
\* the one table t: what the statement does to the database, and whether
\* the driver raises (a statement it cannot run, a missing table, or a
\* statement that returns no rows)
db_execute(sql, database) ==
    LET w == FirstWord(sql)
    IN  IF w = W_select
        THEN IF Find(Lower(sql), <<"f","r","o","m">>, 0) = -1
             THEN [db |-> database, exc |-> "none", rows |-> 1]
             ELSE IF database.exists
                  THEN [db |-> database, exc |-> "none", rows |-> database.rows]
                  ELSE [db |-> database, exc |-> "OperationalError", rows |-> 0]
        ELSE IF w = <<"d","r","o","p">>
        THEN [db |-> [exists |-> FALSE, rows |-> 0],
              exc |-> "ResourceClosedError", rows |-> 0]
        ELSE IF w \in {<<"d","e","l","e","t","e">>, <<"t","r","u","n","c","a","t","e">>}
        THEN [db |-> [database EXCEPT !.rows = 0],
              exc |-> "ResourceClosedError", rows |-> 0]
        ELSE [db |-> database, exc |-> "OperationalError", rows |-> 0]

(***************************************************************************)
(* nsql_agent.py: validate_and_execute                                     *)
(***************************************************************************)
ExceptionKinds == {"KeyError", "IndexError", "EncodeError", "GenerationError",
                   "OperationalError", "ResourceClosedError"}

\* except Exception as e  (validate_and_execute)
ExecCaught(exc) == exc \in ExceptionKinds

\* a plausible slip: the connection is closed on the normal path only
ReleaseOnExit_leak(open, exc) == IF exc = "none" THEN open - 1 ELSE open

\* leaving the block of   with self.engine.connect() as conn
ReleaseOnExit(open, exc) == open - 1

\* where the driver may fail for reasons outside the program
ExecFaults == {"none", "connect", "execute", "fetch"}

\* NSQLAgent.validate_and_execute; fault is the external failure injected
validate_and_execute(sql_query, database, open, fault) ==
    TheOnly({
    LET sql_query_lower == Strip(Lower(sql_query))
        exc    == IF fault = "connect" THEN "OperationalError"
                  ELSE IF fault = "execute" THEN "OperationalError"
                  ELSE IF ran.exc # "none" THEN ran.exc
                  ELSE IF fault = "fetch" THEN "OperationalError"
                  ELSE "none"
        \* the database has acted unless the failure came before the statement
        db1    == IF fault \in {"connect", "execute"} THEN database ELSE ran.db
        open1  == IF fault = "connect" THEN open
                  ELSE ReleaseOnExit(open + 1, exc)
    IN  IF \/ StartsWith(sql_query_lower, <<"d","e","l","e","t","e">>)
           \/ StartsWith(sql_query_lower, <<"d","r","o","p">>)
        THEN [raised |-> "none", db |-> database, open |-> open, sent |-> <<>>,
              connected |-> FALSE,
              result |-> [kind |-> "only_select", sql |-> sql_query]]
        ELSE [raised |-> IF exc # "none" /\ ~ExecCaught(exc) THEN exc ELSE "none",
              db |-> db1,
              open |-> open1,
              sent |-> IF fault = "connect" THEN <<>> ELSE <<sql_query>>,
              connected |-> fault # "connect",
              result |-> IF exc # "none" THEN [kind |-> "exec_error", exc |-> exc]
                         ELSE IF ran.rows = 0 THEN [kind |-> "no_results"]
                         ELSE [kind |-> "rows", rows |-> ran.rows]]
    \* result = conn.execute(text(sql_query)); rows = result.fetchall()
    : ran \in {db_execute(sql_query, database)} })

(***************************************************************************)
(* nsql_agent.py: process_query                                            *)
(***************************************************************************)
\* retrieve_relevant_tables(natural_query) is called with the default k and
\* the default min_score
DefaultK == 3

\* a plausible slip: the rejection is reported but the call goes on
GateBlocks_never(is_valid) == FALSE

\* a plausible slip: the test is the wrong way round
GateBlocks_inverted(is_valid) == is_valid

\* if not is_valid: return ...
GateBlocks(is_valid) == ~is_valid

\* a plausible slip: the outer handler misses the generation failure
QueryCaught_narrow(exc) == exc \in ExceptionKinds \ {"GenerationError"}

\* except Exception as e  (process_query)
QueryCaught(exc) == exc \in ExceptionKinds

\* a plausible slip: the generated text is executed as it came
ExecutedText_raw(sql_query, sanitized_query) == sql_query

\* self.validate_and_execute(sanitized_query)
ExecutedText(sql_query, sanitized_query) == sanitized_query

\* if not relevant_tables
NoTables(relevant_tables) == relevant_tables = <<>>

\* how a raised exception leaves process_query; stages lists the stages the
\* call has entered, and is_valid is meaningful once "gate" is among them
QueryFailure(exc, stages, database, open) ==
    [raised |-> IF QueryCaught(exc) THEN "none" ELSE exc,
     result |-> [kind |-> "error", exc |-> exc],
     stages |-> stages, sql_query |-> None, is_valid |-> FALSE,
     sent |-> <<>>, db |-> database, open |-> open]

\* NSQLAgent.process_query; env holds what the collaborators do in this call:
\* encode_ok (the embedding model), response (the generative model's answer,
\* None when it raises) and fault (the database driver); ties is the search
\* library's order of equal scores
process_query(natural_query, descriptions, idx, database, open, env, ties) ==
    TheOnly({
    IF found.raised
    THEN QueryFailure(IF env.encode_ok THEN "IndexError" ELSE "EncodeError",
                      <<"retrieve">>, database, open)
    ELSE IF NoTables(found.tables)
    THEN [raised |-> "none", result |-> [kind |-> "no_tables"],
          stages |-> <<"retrieve">>, sql_query |-> None, is_valid |-> FALSE,
          sent |-> <<>>, db |-> database, open |-> open]
    ELSE IF env.response = None
    THEN QueryFailure("GenerationError", <<"retrieve", "generate">>,
                      database, open)
    ELSE TheOnly({
    IF GateBlocks(gate.is_valid)
    THEN [raised |-> "none",
          result |-> [kind |-> "dangerous", sql |-> sql_query],
          stages |-> <<"retrieve", "generate", "gate">>,
          sql_query |-> sql_query, is_valid |-> gate.is_valid,
          sent |-> <<>>, db |-> database, open |-> open]
    ELSE TheOnly({
    IF ran.raised # "none"
    THEN [QueryFailure(ran.raised,
                       <<"retrieve", "generate", "gate", "execute">>,
                       ran.db, ran.open)
            EXCEPT !.sql_query = sql_query, !.is_valid = gate.is_valid,
                   !.sent = ran.sent]
    ELSE [raised |-> "none",
          result |-> [kind |-> "generated", sql |-> gate.sanitized_query,
                      result |-> ran.result],
          stages |-> <<"retrieve", "generate", "gate", "execute">>,
          sql_query |-> sql_query, is_valid |-> gate.is_valid,
          sent |-> ran.sent, db |-> ran.db, open |-> ran.open]
    \* Step 4: result = self.validate_and_execute(sanitized_query)
    : ran \in {validate_and_execute(ExecutedText(sql_query,
                                                 gate.sanitized_query),
                                    database, open, env.fault)} })
    \* Step 2 and 3: sql_query = generate_sql(...), then the safety gate
    : sql_query \in {extract_sql_query(env.response)},
      gate \in {validate_and_sanitize_query(extract_sql_query(env.response))} })
    \* Step 1: relevant_tables = retrieve_relevant_tables(natural_query)
    : found \in {retrieve_relevant_tables(descriptions, idx, natural_query,
                                         DefaultK, DefaultMinScore,
                                         env.encode_ok, ties)} })

\* RAGSystem.add_custom_table_descriptions (NSQLAgent's method of the same
\* name only forwards to it)
add_custom_table_descriptions(descriptions, idx, customs, encode_ok, shape) ==
    LET extended == AppendCustom(descriptions, customs)
        built    == build_index(extended.descriptions, encode_ok, shape)
    IN  IF extended.raised
        THEN [raised |-> "KeyError", descriptions |-> extended.descriptions,
              index |-> idx]
        ELSE IF built.raised
        THEN [raised |-> IF encode_ok THEN "IndexError" ELSE "EncodeError",
              descriptions |-> extended.descriptions, index |-> idx]
        ELSE [raised |-> "none", descriptions |-> extended.descriptions,
              index |-> built.index]

(***************************************************************************)
(* The program: an agent is constructed, then called any number of times   *)
(***************************************************************************)
MaxDescs == 4
MaxNew == 2
MaxK == 3
MaxRows == 2

LiveT == [name |-> "t",
          columns |-> <<[name |-> "id", type |-> "INTEGER",
                         nullable |-> FALSE, primary_key |-> TRUE]>>,
          foreign_keys |-> <<>>]

LiveU == [name |-> "u",
          columns |-> <<[name |-> "t_id", type |-> "INTEGER"]>>,
          foreign_keys |-> <<[constrained_columns |-> <<"t_id">>,
                              referred_table |-> "t",
                              referred_columns |-> <<"id">>]>>]

\* what the inspector may report
Schemas == { <<>>, <<LiveT>>, <<LiveT, LiveU>> }

E_t == [name |-> "t"]

E_emp == [name |-> "emp",
          columns |-> <<[name |-> "id", type |-> "INTEGER",
                         nullable |-> FALSE, primary_key |-> TRUE],
                        [name |-> "dept", type |-> "TEXT"]>>,
          primary_keys |-> <<"id">>,
          foreign_keys |-> <<[constrained_columns |-> <<"dept">>,
                              referred_table |-> "t",
                              referred_columns |-> <<"id">>]>>]

\* a custom description of the live table t: the same text as the live
\* descriptor's, under is_custom
E_twin == [name |-> "t",
           columns |-> <<[name |-> "id", type |-> "INTEGER",
                          nullable |-> FALSE, primary_key |-> TRUE]>>,
           primary_keys |-> <<"id">>]

E_noname == [columns |-> <<>>]

E_badcol == [name |-> "x", columns |-> <<[name |-> "c"]>>]

\* the entries a caller may hand to add_custom_table_descriptions
CustomEntries == {E_t, E_twin, E_noname, E_badcol}

NewLists == SeqsUpTo(CustomEntries, MaxNew)

\* the custom descriptions handed to the constructor
CtorCustoms == { <<>>, <<E_emp>>, <<E_noname>> }

\* natural-language queries, as word sequences
Queries == { <<"show", "t">>,
             CustomDescription(E_t).text_description,
             CustomDescription(E_twin).text_description }

\* the thresholds a caller may pass as min_score: none, the default, and one
\* above every score
MinScores == {0, DefaultMinScore, UnitLen * UnitLen + 1}

\* what the collaborators do during one process_query call: the embedding
\* model fails, or the generative model fails, or it answers and the driver
\* behaves in one of the ExecFaults ways
Envs == { [encode_ok |-> FALSE, response |-> None, fault |-> "none"],
          [encode_ok |-> TRUE, response |-> None, fault |-> "none"] }
        \cup [encode_ok : {TRUE}, response : Responses, fault : ExecFaults]
        \cup [encode_ok : {TRUE}, response : FencedResponses, fault : {"none"}]

\* no call is in progress and the previous result has been handed over
Idle == last.op \in {"init", "none"}

\* NSQLAgent.__init__ / RAGSystem.__init__
Init ==
    /\ q = <<>> /\ gstep = "off" /\ san = None /\ san2 = None /\ valid = None
    /\ empty_shape \in EmptyEncodeShapes
    /\ \E live \in Schemas, customs \in CtorCustoms, rows \in {0, MaxRows} :
         LET described == get_table_descriptions(live, customs)
             built == build_index(described.descriptions, TRUE, empty_shape)
         IN  /\ db = [exists |-> live # <<>>, rows |-> IF live # <<>> THEN rows ELSE 0]
             /\ IF described.raised \/ built.raised
                THEN /\ agent = "failed"
                     /\ table_descriptions = described.descriptions
                     /\ index = <<>>
                ELSE /\ agent = "ok"
                     /\ table_descriptions = described.descriptions
                     /\ index = built.index
             /\ last = [op |-> "init", live |-> live, customs |-> customs,
                        raised |-> IF described.raised THEN "KeyError"
                                   ELSE IF built.raised THEN "IndexError"
                                   ELSE "none"]
    /\ open_conns = 0
    /\ ConfigAtRest
    /\ adding = NotAdding

ProcessQuery ==
    /\ agent = "ok" /\ Idle
    /\ \E natural_query \in Queries, env \in Envs, ties \in TieOrders :
         \E r \in {process_query(natural_query, table_descriptions, index,
                                  db, open_conns, env, ties)} :
             /\ db' = r.db
             /\ open_conns' = r.open
             /\ last' = [op |-> "process_query", natural_query |-> natural_query,
                         raised |-> r.raised, result |-> r.result,
                         stages |-> r.stages, sql_query |-> r.sql_query,
                         is_valid |-> r.is_valid, sent |-> r.sent,
                         response |-> env.response,
                         pre_db |-> db, pre_count |-> Len(table_descriptions),
                         \* how many tables Step 1 got back
                         retrieved |-> Len(retrieve_relevant_tables(
                                              table_descriptions, index,
                                              natural_query, DefaultK,
                                              DefaultMinScore,
                                              env.encode_ok, ties).tables)]
    /\ UNCHANGED <<gateVars, agent, table_descriptions, index, empty_shape,
                   cfgVars, adding>>

ValidateAndExecute ==
    /\ agent = "ok" /\ Idle
    /\ \E sql_query \in Responses, fault \in ExecFaults :
         \E r \in {validate_and_execute(sql_query, db, open_conns, fault)} :
             /\ db' = r.db
             /\ open_conns' = r.open
             /\ last' = [op |-> "validate_and_execute", sql_query |-> sql_query,
                         fault |-> fault, raised |-> r.raised,
                         result |-> r.result, sent |-> r.sent,
                         connected |-> r.connected, pre_db |-> db]
    /\ UNCHANGED <<gateVars, agent, table_descriptions, index, empty_shape,
                   cfgVars, adding>>

RetrieveRelevantTables ==
    /\ agent = "ok" /\ Idle
    /\ \E query \in Queries, k \in 1..MaxK, min_score \in MinScores,
          encode_ok \in BOOLEAN, ties \in TieOrders :
         \E r \in {retrieve_relevant_tables(table_descriptions, index, query,
                                             k, min_score, encode_ok, ties)} :
             last' = [op |-> "retrieve", query |-> query, k |-> k,
                      min_score |-> min_score, ties |-> ties,
                      raised |-> r.raised, tables |-> r.tables,
                      during_add |-> adding # NotAdding,
                      index_size |-> Len(index),
                      list_size |-> Len(table_descriptions)]
    /\ UNCHANGED <<gateVars, agent, table_descriptions, index, db,
                   open_conns, empty_shape, cfgVars, adding>>

AddCustomTableDescriptions ==
    /\ agent = "ok" /\ Idle
    /\ \E customs \in NewLists, encode_ok \in BOOLEAN :
         /\ Len(table_descriptions) + Len(customs) <= MaxDescs
         /\ \E r \in {add_custom_table_descriptions(table_descriptions, index,
                                                     customs, encode_ok, empty_shape)} :
                /\ table_descriptions' = r.descriptions
                /\ index' = r.index
                /\ last' = [op |-> "add", customs |-> customs,
                            encode_ok |-> encode_ok, raised |-> r.raised,
                            pre |-> table_descriptions, pre_index |-> index]
    /\ UNCHANGED <<gateVars, agent, db, open_conns, empty_shape, cfgVars, adding>>

\* the caller takes the returned value (or the exception) and goes on
Return ==
    /\ ~Idle
    /\ last' = [op |-> "none"]
    /\ UNCHANGED <<gateVars, agent, table_descriptions, index, db,
                   open_conns, empty_shape, cfgVars, adding>>

\* the query pipeline of the agent
Next == ProcessQuery \/ ValidateAndExecute \/ Return

Spec == Init /\ [][Next]_vars

\* the retrieval system of the agent
RAGNext == RetrieveRelevantTables \/ AddCustomTableDescriptions \/ Return

SpecRAG == Init /\ [][RAGNext]_vars

(***************************************************************************)
(* Searches next to an add_custom_table_descriptions call that runs one    *)
(* statement at a time: the loop appends entry by entry, _build_index      *)
(* encodes the list, replaces self.index by an empty index and fills it.   *)
(* A search is taken as one step, and its result is handed over (Return)   *)
(* before the next statement is looked at.                                 *)
(***************************************************************************)
\* the call is entered with the caller's list
AddBegin ==
    /\ agent = "ok" /\ Idle
    /\ adding = NotAdding
    /\ \E customs \in NewLists :
          /\ Len(table_descriptions) + Len(customs) <= MaxDescs
          /\ adding' = [pc |-> "loop", customs |-> customs]
    /\ UNCHANGED <<gateVars, agent, table_descriptions, index, db, open_conns,
                   empty_shape, last, cfgVars>>

\* one pass of the loop: the entry is described and appended, or its
\* KeyError ends the call
AddAppendOne ==
    /\ Idle
    /\ adding.pc = "loop"
    /\ adding.customs # <<>>
    /\ \E r \in {AppendCustom(table_descriptions, <<Head(adding.customs)>>)} :
          /\ table_descriptions' = r.descriptions
          /\ adding' = IF r.raised THEN NotAdding
                       ELSE [adding EXCEPT !.customs = Tail(adding.customs)]
    /\ UNCHANGED <<gateVars, agent, index, db, open_conns, empty_shape, last,
                   cfgVars>>

\* _build_index up to dimension = embeddings.shape[1]: the embeddings of the
\* list as it is now, or the exception that ends the call
AddEncode ==
    /\ Idle
    /\ adding.pc = "loop"
    /\ adding.customs = <<>>
    /\ \E encode_ok \in BOOLEAN :
          \E built \in {build_index(table_descriptions, encode_ok, empty_shape)} :
              adding' = IF built.raised THEN NotAdding
                        ELSE [pc |-> "encoded", embeddings |-> built.index]
    /\ UNCHANGED <<gateVars, agent, table_descriptions, index, db, open_conns,
                   empty_shape, last, cfgVars>>

\* self.index = faiss.IndexFlatIP(dimension): the old index is gone and the
\* new one holds no vector yet
AddNewIndex ==
    /\ Idle
    /\ adding.pc = "encoded"
    /\ index' = <<>>
    /\ adding' = [adding EXCEPT !.pc = "created"]
    /\ UNCHANGED <<gateVars, agent, table_descriptions, db, open_conns,
                   empty_shape, last, cfgVars>>

\* self.index.add(embeddings), and the call returns
AddFill ==
    /\ Idle
    /\ adding.pc = "created"
    /\ index' = adding.embeddings
    /\ adding' = NotAdding
    /\ UNCHANGED <<gateVars, agent, table_descriptions, db, open_conns,
                   empty_shape, last, cfgVars>>

InterleavedNext ==
    \/ AddBegin \/ AddAppendOne \/ AddEncode \/ AddNewIndex \/ AddFill
    \/ RetrieveRelevantTables \/ Return

SpecInterleaved == Init /\ [][InterleavedNext]_vars

(***************************************************************************)
(* The configuration manager: constructed, then used any number of times   *)
(***************************************************************************)
TestDbUrl == "sqlite:///test.db"
TestDescFile == "/path/to/test_descriptions.json"

Urls == {"", TestDbUrl}
DescFiles == {"", TestDescFile}
Models == {DefaultModel, "gemini-pro"}

\* what the configuration file may hold when the manager is constructed
StoredFiles ==
    { [kind |-> "absent"], [kind |-> "corrupt"],
      [kind |-> "json", data |-> [db_url |-> TestDbUrl]],
      [kind |-> "json", data |-> [gemini_model |-> "gemini-pro", theme |-> "dark"]] }

\* ConfigManager.__init__
ConfigInit ==
    /\ q = <<>> /\ gstep = "off" /\ san = None /\ san2 = None /\ valid = None
    /\ agent = "failed" /\ table_descriptions = <<>> /\ index = <<>>
    /\ db = [exists |-> TRUE, rows |-> 0]
    /\ open_conns = 0 /\ empty_shape = 1
    /\ config_file \in StoredFiles
    /\ default_config = 1
    /\ \E loaded \in {load_config([c \in Cells |-> IF c = 1 THEN Defaults
                                                  ELSE FreeCell],
                                   1, config_file, {1})} :
          /\ heap = loaded.heap
          /\ config = loaded.ref
    /\ returned = NoRef
    /\ recent = [k \in ConfigKeys |-> Unset]
    /\ last = [op |-> "none"]
    /\ adding = NotAdding

SetDbUrl ==
    /\ Idle
    /\ \E db_url \in Urls :
          /\ heap' = [heap EXCEPT ![config] = set_db_url(heap[config], db_url)]
          /\ recent' = [recent EXCEPT !["db_url"] = db_url]
          /\ last' = [op |-> "set", key |-> "db_url", value |-> db_url,
                      pre |-> heap[config]]
    /\ UNCHANGED <<gateVars, agent, table_descriptions, index, db, open_conns,
                   empty_shape, adding, default_config, config, returned, config_file>>

SetTableDescriptionsFile ==
    /\ Idle
    /\ \E file_path \in DescFiles :
          /\ heap' = [heap EXCEPT
                         ![config] = set_table_descriptions_file(heap[config], file_path)]
          /\ recent' = [recent EXCEPT !["table_descriptions_file"] = file_path]
          /\ last' = [op |-> "set", key |-> "table_descriptions_file",
                      value |-> file_path, pre |-> heap[config]]
    /\ UNCHANGED <<gateVars, agent, table_descriptions, index, db, open_conns,
                   empty_shape, adding, default_config, config, returned, config_file>>

SetGeminiModel ==
    /\ Idle
    /\ \E model \in Models :
          /\ heap' = [heap EXCEPT ![config] = set_gemini_model(heap[config], model)]
          /\ recent' = [recent EXCEPT !["gemini_model"] = model]
          /\ last' = [op |-> "set", key |-> "gemini_model", value |-> model,
                      pre |-> heap[config]]
    /\ UNCHANGED <<gateVars, agent, table_descriptions, index, db, open_conns,
                   empty_shape, adding, default_config, config, returned, config_file>>

GetConfig ==
    /\ Idle
    /\ \E copied \in {CopyDict(heap, config, {default_config, config})} :
          /\ returned' = copied.ref
          /\ heap' = Collect(copied.heap, {default_config, config, copied.ref})
          /\ last' = [op |-> "get_config", value |-> copied.heap[copied.ref]]
    /\ UNCHANGED <<gateVars, agent, table_descriptions, index, db, open_conns,
                   empty_shape, adding, default_config, config, config_file, recent>>

\* the caller writes into the dictionary get_config gave it
MutateReturned ==
    /\ Idle
    /\ returned # NoRef
    /\ \E key \in {"db_url", "gemini_model"} :
          /\ heap' = [heap EXCEPT ![returned] = SetItem(heap[returned], key, "changed")]
          /\ last' = [op |-> "mutate", key |-> key, pre |-> heap[config]]
    /\ UNCHANGED <<gateVars, agent, table_descriptions, index, db, open_conns,
                   empty_shape, adding, default_config, config, returned, config_file,
                   recent>>

GetDbUrl ==
    /\ Idle
    /\ last' = [op |-> "get", key |-> "db_url", value |-> get_db_url(heap[config])]
    /\ UNCHANGED <<gateVars, agent, table_descriptions, index, db, open_conns,
                   empty_shape, cfgVars, adding>>

GetTableDescriptionsFile ==
    /\ Idle
    /\ last' = [op |-> "get", key |-> "table_descriptions_file",
                value |-> get_table_descriptions_file(heap[config])]
    /\ UNCHANGED <<gateVars, agent, table_descriptions, index, db, open_conns,
                   empty_shape, cfgVars, adding>>

GetGeminiModel ==
    /\ Idle
    /\ last' = [op |-> "get", key |-> "gemini_model",
                value |-> get_gemini_model(heap[config])]
    /\ UNCHANGED <<gateVars, agent, table_descriptions, index, db, open_conns,
                   empty_shape, cfgVars, adding>>

SaveConfig ==
    /\ Idle
    /\ \E fault \in SaveFaults :
          \E saved \in {save_config(heap[config], config_file, fault)} :
              /\ config_file' = saved.file
              /\ last' = [op |-> "save_config", ok |-> saved.ok]
    /\ UNCHANGED <<gateVars, agent, table_descriptions, index, db, open_conns,
                   empty_shape, adding, heap, default_config, config, returned, recent>>

\* ConfigManager.reset_config: self.config = self.default_config.copy(),
\* then self.save_config(), whose return value is dropped
ResetConfig ==
    /\ Idle
    /\ \E fault \in SaveFaults :
          \E copied \in {CopyDict(heap, default_config,
                                   {default_config, returned} \ {NoRef})} :
              \E saved \in {save_config(copied.heap[copied.ref], config_file, fault)} :
                  /\ config' = copied.ref
                  /\ heap' = Collect(copied.heap,
                                     {default_config, copied.ref, returned} \ {NoRef})
                  /\ config_file' = saved.file
                  /\ recent' = [k \in ConfigKeys |-> Unset]
                  /\ last' = [op |-> "reset_config", saved |-> saved.ok,
                              pre |-> heap[config], pre_file |-> config_file]
    /\ UNCHANGED <<gateVars, agent, table_descriptions, index, db, open_conns,
                   empty_shape, adding, default_config, returned>>

ConfigNext ==
    \/ SetDbUrl \/ SetTableDescriptionsFile \/ SetGeminiModel
    \/ GetConfig \/ MutateReturned
    \/ GetDbUrl \/ GetTableDescriptionsFile \/ GetGeminiModel
    \/ SaveConfig \/ ResetConfig \/ Return

SpecConfig == ConfigInit /\ [][ConfigNext]_vars

(***************************************************************************)
(* Claims about the query pipeline (Spec)                                  *)
(***************************************************************************)
GateRan == last.op = "process_query" /\ "gate" \in Range(last.stages)

\* C1: when the safety gate reports is_valid = false in a process_query call,
\* validate_and_execute is not entered, no statement is sent to the database
\* and the database is as it was before the call.
C1_InvalidNeverExecuted ==
    (GateRan /\ ~last.is_valid) =>
        /\ "execute" \notin Range(last.stages)
        /\ last.sent = <<>>
        /\ db = last.pre_db

\* the generated text DROP TABLE t was rejected
C1_Witness ==
    /\ GateRan /\ ~last.is_valid
    /\ last.sql_query = SQL_Drop
    /\ last.result = [kind |-> "dangerous", sql |-> SQL_Drop]
    /\ db.exists

\* C2: process_query never raises; whatever retrieval, generation or
\* execution do, it returns a string.
C2_ProcessQueryNeverRaises ==
    last.op = "process_query" =>
        /\ last.raised = "none"
        /\ last.result.kind \in {"no_tables", "dangerous", "generated", "error"}

\* the generative model raised and the call returned the error string
C2_Witness ==
    /\ last.op = "process_query"
    /\ last.raised = "none"
    /\ last.result = [kind |-> "error", exc |-> "GenerationError"]

C2_WitnessRetrieval ==
    /\ last.op = "process_query"
    /\ last.raised = "none"
    /\ last.result = [kind |-> "error", exc |-> "EncodeError"]

\* C10: validate_and_execute never raises, and the connection it acquired
\* is released however the call ends.
C10_ExecuteNeverRaisesNorLeaks ==
    /\ last.op = "validate_and_execute" =>
          /\ last.raised = "none"
          /\ last.result.kind \in {"only_select", "exec_error", "no_results", "rows"}
    /\ last.op \in {"validate_and_execute", "process_query"} => open_conns = 0

\* the statement failed on an acquired connection
C10_Witness ==
    /\ last.op = "validate_and_execute"
    /\ last.connected
    /\ last.fault = "execute"
    /\ last.result.kind = "exec_error"
    /\ open_conns = 0

\* the text has a ';', no blacklisted keyword before the first ';' and one
\* after it
KeywordOnlyAfterTerminator(s) ==
    /\ Contains(s, ";")
    /\ ~HasStandaloneKeyword(SplitFirst(s, ";"))
    /\ HasStandaloneKeyword(SubSeq(s, Len(SplitFirst(s, ";")) + 2, Len(s)))

\* C11: when the generated SQL has a blacklisted keyword only after its first
\* ';', the gate reports valid, execution is entered, the only text sent to
\* the database is the trimmed text before the first ';', and what follows
\* the ';' does not act on the database.
C11_ValidatesSanitizedTextOnly ==
    (GateRan /\ KeywordOnlyAfterTerminator(last.sql_query)) =>
        /\ last.is_valid
        /\ "execute" \in Range(last.stages)
        /\ Len(last.sent) <= 1
        /\ \A i \in DOMAIN last.sent :
              last.sent[i] = Strip(SplitFirst(last.sql_query, ";"))
        /\ db = last.pre_db

\* SELECT 1; DROP TABLE t ran as SELECT 1 and returned one row
C11_Witness ==
    /\ GateRan
    /\ last.sql_query = SQL_Multi
    /\ last.sent = <<SQL_Select1>>
    /\ last.result = [kind |-> "generated", sql |-> SQL_Select1,
                      result |-> [kind |-> "rows", rows |-> 1]]
    /\ db.exists

\* C14: when the gate reports valid, the only text process_query sends to the
\* database is the sanitized text, and the call returns the sanitized SQL
\* followed by the result string of validate_and_execute, whichever of its
\* four kinds that is.
C14_SendsAndReturnsSanitized ==
    (GateRan /\ last.is_valid) =>
        /\ "execute" \in Range(last.stages)
        /\ Len(last.sent) <= 1
        /\ \A i \in DOMAIN last.sent :
              last.sent[i] = sanitize_sql_query(last.sql_query)
        /\ last.result.kind = "generated"
        /\ last.result.sql = sanitize_sql_query(last.sql_query)
        /\ last.result.result.kind \in
              {"only_select", "exec_error", "no_results", "rows"}

\* a generated text that sanitation changed was sent in its sanitized form,
\* and the execution error came back behind the sanitized SQL
C14_Witness ==
    /\ GateRan /\ last.is_valid
    /\ last.sql_query # last.result.sql
    /\ last.sent = <<last.result.sql>>
    /\ last.result.result.kind = "exec_error"

C14_WitnessNoResults ==
    /\ GateRan /\ last.is_valid
    /\ last.sql_query # last.result.sql
    /\ last.sent = <<last.result.sql>>
    /\ last.result.result.kind = "no_results"

StageOrder == <<"retrieve", "generate", "gate", "execute">>

IsPrefix(s, t) == Len(s) <= Len(t) /\ SubSeq(t, 1, Len(s)) = s

\* C20: the stages a process_query call enters are a prefix of retrieval,
\* generation, validation, execution, each entered once; generation is
\* entered only when retrieval returned tables, execution only when the gate
\* reported valid; the call ends at the stage that failed or gave a negative
\* result, and at most one statement is sent.
C20_StagesInOrderNoRetry ==
    last.op = "process_query" =>
        /\ last.stages # <<>>
        /\ IsPrefix(last.stages, StageOrder)
        /\ "generate" \in Range(last.stages) => last.retrieved > 0
        /\ "execute" \in Range(last.stages) => last.is_valid
        /\ Len(last.sent) <= 1
        /\ "execute" \notin Range(last.stages) => last.sent = <<>>
        /\ last.result.kind = "no_tables" => last.stages = <<"retrieve">>
        /\ last.result.kind = "dangerous" => last.stages = SubSeq(StageOrder, 1, 3)
        /\ last.result.kind = "generated" => last.stages = StageOrder
        /\ last.result.kind = "error" =>
              last.stages = IF last.result.exc = "GenerationError"
                            THEN SubSeq(StageOrder, 1, 2)
                            ELSE <<"retrieve">>

\* all four stages ran, the statement failed in the database, and it was
\* sent once
C20_Witness ==
    /\ last.op = "process_query"
    /\ last.stages = StageOrder
    /\ last.result.kind = "generated"
    /\ last.result.result.kind = "exec_error"
    /\ Len(last.sent) = 1

\* the call ended at the gate
C20_WitnessRejected ==
    /\ last.op = "process_query"
    /\ last.stages = SubSeq(StageOrder, 1, 3)
    /\ ~last.is_valid
    /\ last.retrieved > 0

\* the text from position start (0-based) up to the next fence, trimmed
FencedBody(s, start) ==
    LET close == Find(s, Fence, start)
    IN  Strip(Slice(s, start, IF close = -1 THEN Len(s) ELSE close))

\* the opening fence ending at position after is followed by a language tag:
\* letters only, up to the end of the line
TagLineEnd(s, after) ==
    LET newline == Find(s, <<"\n">>, after)
    IN  IF /\ newline > after
           /\ \A i \in (after + 1)..newline : IsAlpha(s[i])
        THEN newline ELSE after

\* the SQL the response carries: the first block tagged sql, else the first
\* fenced block without its language-tag line, else the trimmed response
CarriedSql(response_text) ==
    LET s == Strip(response_text)
    IN  IF Find(s, SqlFence, 0) # -1
        THEN FencedBody(s, Find(s, SqlFence, 0) + Len(SqlFence))
        ELSE IF Find(s, Fence, 0) # -1
        THEN FencedBody(s, TagLineEnd(s, Find(s, Fence, 0) + Len(Fence)))
        ELSE s

\* C24: the SQL taken from the response is the content of the first block
\* tagged sql, also after a generic block; else the content of the first
\* fenced block, where only a language-tag line is skipped and SQL that
\* starts right after the opening fence is kept; else the trimmed response.
C24_ExtractsCarriedSql ==
    (GateRan /\ last.response # None) =>
        last.sql_query = CarriedSql(last.response)

(***************************************************************************)
(* Claims about the retrieval system (SpecRAG)                             *)
(***************************************************************************)
Retrieved == last.op = "retrieve" /\ ~last.raised

\* C6: retrieve_relevant_tables(query, k) returns at most k results, and
\* with n < k indexed descriptors exactly n, each from a different index slot.
C6_AtMostKExactlyN ==
    Retrieved =>
        /\ Len(last.tables) <= last.k
        /\ Len(index) < last.k =>
              /\ Len(last.tables) = Len(index)
              /\ \A i \in DOMAIN last.tables :
                    /\ last.tables[i].slot \in 0..(Len(index) - 1)
                    /\ \A j \in DOMAIN last.tables :
                          i # j => last.tables[i].slot # last.tables[j].slot

Added == last.op = "add" /\ last.raised = "none"

\* C7: after add_custom_table_descriptions(new) returns, there are len(new)
\* more descriptors and the earlier ones keep their positions, also when a
\* new name is already present.
C7_AppendOnly ==
    Added =>
        /\ Len(table_descriptions) = Len(last.pre) + Len(last.customs)
        /\ SubSeq(table_descriptions, 1, Len(last.pre)) = last.pre

\* a descriptor was added under the name of a live table
C7_Witness ==
    /\ Added
    /\ \E i \in DOMAIN last.customs, j \in DOMAIN last.pre :
          /\ last.customs[i].name = last.pre[j].name
          /\ ~last.pre[j].is_custom

\* a descriptor was added under the name of a custom descriptor
C7_WitnessCustom ==
    /\ Added
    /\ \E i \in DOMAIN last.customs, j \in DOMAIN last.pre :
          /\ last.customs[i].name = last.pre[j].name
          /\ last.pre[j].is_custom

\* C12: min_score is not applied: what retrieve_relevant_tables returns is
\* what it returns under every other min_score, and every slot the search
\* matched is in the result with its score, however low.
C12_MinScoreNotApplied ==
    Retrieved =>
        /\ \A other \in MinScores :
              last.tables = retrieve_relevant_tables(table_descriptions, index,
                                last.query, last.k, other, TRUE,
                                last.ties).tables
        /\ \A f \in Range(faiss_search(index, NormalizeL2(Encode(last.query)),
                                        last.k, last.ties)) :
              f.idx >= 0 =>
                  \E i \in DOMAIN last.tables :
                      /\ last.tables[i].slot = f.idx
                      /\ last.tables[i].similarity_score = f.score

\* a matched descriptor was returned with a score below the min_score passed
C12_Witness ==
    /\ Retrieved
    /\ last.min_score = DefaultMinScore
    /\ \E i \in DOMAIN last.tables :
          /\ last.tables[i].slot >= 0
          /\ last.tables[i].similarity_score < last.min_score

LacksName(entry) == ~HasKey(entry, "name")

\* the position of the first entry without a name
FirstNameless(customs) ==
    Min({ i \in DOMAIN customs : LacksName(customs[i]) })

\* C13: a custom entry without a name key makes the descriptor build fail
\* with a KeyError (the SchemaError of the error taxonomy), at construction
\* and in add_custom_table_descriptions, and no descriptor is built from that
\* entry or from any entry after it.
C13_NamelessEntryFails ==
    /\ (last.op = "init" /\ \E i \in DOMAIN last.customs : LacksName(last.customs[i]))
          => (agent = "failed" /\ last.raised = "KeyError")
    /\ (last.op = "add" /\ \E i \in DOMAIN last.customs : LacksName(last.customs[i]))
          => /\ last.raised = "KeyError"
             /\ Len(table_descriptions) < Len(last.pre) + FirstNameless(last.customs)
             /\ SubSeq(table_descriptions, 1, Len(last.pre)) = last.pre
             /\ index = last.pre_index

\* the second entry of a batch had no name: the call raised after the first
\* entry was described
C13_Witness ==
    /\ last.op = "add"
    /\ last.customs = <<E_t, E_noname>>
    /\ last.raised = "KeyError"
    /\ Len(table_descriptions) = Len(last.pre) + 1

\* index slot i holds the normalized embedding of table_descriptions[i]
Coupled ==
    /\ Len(index) = Len(table_descriptions)
    /\ \A i \in DOMAIN table_descriptions :
          index[i] = NormalizeL2(Encode(table_descriptions[i].text_description))

\* C17: after construction and after every add_custom_table_descriptions
\* that returns normally the index is coupled to the descriptor list; a
\* search of a coupled index returns, for every entry, the descriptor of an
\* index slot the search matched, with that slot's score, and with k at
\* least the number of descriptors every descriptor is among the results.
C17_IndexCoupledToList ==
    /\ ((last.op = "init" /\ agent = "ok") \/ Added) => Coupled
    /\ (Retrieved /\ Coupled) =>
          /\ \A i \in DOMAIN last.tables :
                /\ last.tables[i].slot \in 0..(Len(index) - 1)
                /\ last.tables[i].descriptor =
                      table_descriptions[last.tables[i].slot + 1]
                /\ last.tables[i].similarity_score =
                      InnerProduct(index[last.tables[i].slot + 1],
                                   NormalizeL2(Encode(last.query)))
          /\ last.k >= Len(table_descriptions) =>
                \A n \in DOMAIN table_descriptions :
                    \E i \in DOMAIN last.tables : last.tables[i].slot = n - 1

\* the score of index slot s (0-based) against a query
SlotScore(s, query) == InnerProduct(index[s + 1], NormalizeL2(Encode(query)))

\* slot a comes before slot b in the ranking for a query: a higher score, or
\* the same score and an earlier place in the descriptor list
RanksBefore(a, b, query) ==
    \/ SlotScore(a, query) > SlotScore(b, query)
    \/ (SlotScore(a, query) = SlotScore(b, query) /\ a < b)

\* C21: retrieve_relevant_tables returns the k highest-scoring indexed
\* descriptors (all of them when fewer than k are indexed), each with its
\* inner-product score, in descending score order, equal scores in
\* descriptor-list order; nothing left out ranks before anything returned.
C21_TopKStableOrder ==
    Retrieved =>
        /\ Len(last.tables) = Min({last.k, Len(index)})
        /\ \A i \in DOMAIN last.tables :
              /\ last.tables[i].slot \in 0..(Len(index) - 1)
              /\ last.tables[i].descriptor =
                    table_descriptions[last.tables[i].slot + 1]
              /\ last.tables[i].similarity_score =
                    SlotScore(last.tables[i].slot, last.query)
        /\ \A i, j \in DOMAIN last.tables :
              i < j => RanksBefore(last.tables[i].slot, last.tables[j].slot,
                                   last.query)
        /\ \A s \in 0..(Len(index) - 1) :
              (\A i \in DOMAIN last.tables : last.tables[i].slot # s) =>
                  \A i \in DOMAIN last.tables :
                      RanksBefore(last.tables[i].slot, s, last.query)

\* the score of a normalized vector against itself
MaxScore == UnitLen * UnitLen

\* the places in the descriptor list of the indexed custom descriptors whose
\* text_description is the query (a descriptor is indexed once the
\* constructor or add_custom_table_descriptions has returned with it)
QueryTwins(query) ==
    { p \in DOMAIN table_descriptions \cap DOMAIN index :
        /\ table_descriptions[p].is_custom
        /\ table_descriptions[p].text_description = query }

\* C22 as stated: once add_custom_table_descriptions has returned, a search
\* for the text_description of an added descriptor returns that descriptor
\* at rank 1 with the maximal score, also when an earlier descriptor has the
\* same text_description.
C22_AddedDescriptorFirst ==
    Retrieved =>
        \A p \in QueryTwins(last.query) :
            /\ last.tables # <<>>
            /\ last.tables[1].descriptor = table_descriptions[p]
            /\ last.tables[1].similarity_score = MaxScore

\* C22 amended: such a search returns at rank 1 a descriptor with the
\* maximal score, which is the added descriptor's own score and which no
\* indexed descriptor exceeds; rank 1 is the added descriptor itself when no
\* other indexed descriptor scores as high (one with the same
\* text_description does, and then either may be at rank 1).
C22_MaximalScoreFirst ==
    Retrieved =>
        \A p \in QueryTwins(last.query) :
            /\ last.tables # <<>>
            /\ last.tables[1].similarity_score = MaxScore
            /\ SlotScore(p - 1, last.query) = MaxScore
            /\ \A s \in 0..(Len(index) - 1) :
                  SlotScore(s, last.query) <= MaxScore
            /\ (\A s \in 0..(Len(index) - 1) :
                    s # p - 1 => SlotScore(s, last.query) < MaxScore)
                  => /\ last.tables[1].slot = p - 1
                     /\ last.tables[1].descriptor = table_descriptions[p]

\* an added descriptor was found first among several, none scoring as high
C22_Witness ==
    /\ Retrieved
    /\ Len(table_descriptions) >= 2
    /\ \E p \in QueryTwins(last.query) :
          /\ \A s \in 0..(Len(index) - 1) :
                s # p - 1 => SlotScore(s, last.query) < MaxScore
          /\ last.tables[1].descriptor = table_descriptions[p]

\* the live table's descriptor came first for the text of the custom
\* descriptor added after it
C22_WitnessDuplicate ==
    /\ Retrieved
    /\ \E p \in QueryTwins(last.query) :
          /\ \E e \in 1..(p - 1) :
                table_descriptions[e].text_description = last.query
          /\ last.tables[1].descriptor # table_descriptions[p]
          /\ last.tables[1].descriptor.text_description = last.query

\* C18: when add_custom_table_descriptions raises, the descriptor list and
\* the index are as they were before the call, and the index has one vector
\* per descriptor.
C18_FailedAddLeavesNoTrace ==
    (last.op = "add" /\ last.raised # "none") =>
        /\ table_descriptions = last.pre
        /\ index = last.pre_index
        /\ Len(index) = Len(table_descriptions)

\* a search saw an index of another size than the descriptor list and returned
\* a descriptor for a label that is no slot of that index
MismatchObserved ==
    /\ last.op = "retrieve"
    /\ ~last.raised
    /\ last.index_size # last.list_size
    /\ \E i \in DOMAIN last.tables :
          last.tables[i].slot \notin 0..(last.index_size - 1)

\* C19: a search that runs while no add_custom_table_descriptions call is in
\* progress never sees an index of another size than the descriptor list
\* together with a returned descriptor that matches no index slot.
C19_SerializedNeverMismatched ==
    ~(MismatchObserved /\ ~last.during_add)

\* C19, the interleaved half: a search between the statements of a running
\* add_custom_table_descriptions call sees the mismatch.
C19_InterleavedMismatch ==
    MismatchObserved /\ last.during_add

\* the text in the order table name, column count, columns, foreign-key
\* references, primary-key summary
SectionOrderText(d) ==
    <<"Table '", d.name, "' has ">>
    \o ColumnsSection(d.columns)
    \o ForeignKeysSection(d.foreign_keys)
    \o PrimaryKeysSection(d.primary_keys)

\* two descriptors give the same name, columns, primary keys and foreign keys
SameSchema(a, b) ==
    /\ a.name = b.name
    /\ Len(a.columns) = Len(b.columns)
    /\ \A i \in DOMAIN a.columns :
          /\ a.columns[i].name = b.columns[i].name
          /\ a.columns[i].type = b.columns[i].type
          /\ Get(a.columns[i], "primary_key", FALSE) = Get(b.columns[i], "primary_key", FALSE)
          /\ Get(a.columns[i], "nullable", TRUE) = Get(b.columns[i], "nullable", TRUE)
    /\ a.primary_keys = b.primary_keys
    /\ a.foreign_keys = b.foreign_keys

\* C23: every descriptor of the list, live or custom, built at construction
\* or by add_custom_table_descriptions, has its text_description in the
\* order name, column count, columns, foreign keys, primary keys; a live and
\* a custom descriptor of the same schema have the same text_description.
C23_SameSectionOrder ==
    /\ \A i \in DOMAIN table_descriptions :
          table_descriptions[i].text_description =
              SectionOrderText(table_descriptions[i])
    /\ \A i \in DOMAIN table_descriptions, j \in DOMAIN table_descriptions :
          SameSchema(table_descriptions[i], table_descriptions[j]) =>
              table_descriptions[i].text_description =
                  table_descriptions[j].text_description

\* C8: with an empty descriptor list the retrieval system is built, and
\* retrieve_relevant_tables returns an empty sequence without raising.
C8_EmptyListServed ==
    /\ (last.op = "init" /\ last.live = <<>> /\ last.customs = <<>>) => agent = "ok"
    /\ (last.op = "retrieve" /\ table_descriptions = <<>>) =>
          ~last.raised /\ last.tables = <<>>

(***************************************************************************)
(* Claims about the configuration manager (SpecConfig)                     *)
(***************************************************************************)
\* C15: a getter returns the value last passed to the setter of its key; a
\* setter changes its own key only; writing into the dictionary get_config
\* returned leaves the manager's configuration as it was.
C15_SetGetAndCopy ==
    /\ (last.op = "get" /\ recent[last.key] # Unset)
          => last.value = recent[last.key]
    /\ last.op = "set"
          => /\ heap[config][last.key] = last.value
             /\ DOMAIN heap[config] = DOMAIN last.pre
             /\ \A k \in DOMAIN last.pre \ {last.key} :
                   heap[config][k] = last.pre[k]
    /\ last.op = "mutate"
          => /\ heap[config] = last.pre
             /\ heap[returned] # heap[config]

\* the file path set by the test is read back while db_url keeps the value
\* set before it
C15_Witness ==
    /\ last.op = "get"
    /\ last.key = "table_descriptions_file"
    /\ last.value = TestDescFile
    /\ recent["db_url"] = TestDbUrl
    /\ heap[config]["db_url"] = TestDbUrl

\* the caller changed the dictionary it got from get_config
C15_WitnessMutate ==
    /\ last.op = "mutate"
    /\ heap[returned]["db_url"] = "changed"
    /\ heap[config]["db_url"] = TestDbUrl

====
